---- MODULE Spec2Model ----
(***************************************************************************)
(* Model of hw-app-nano: the shared command marshalling layer (src/api.js, *)
(* src/util.js) and the Banano device session built on it.                 *)
(*                                                                         *)
(* Strings are sequences of one-character strings, buffers are sequences   *)
(* of byte values 0..255.  Arbitrary precision integers (big-integer) are  *)
(* little-endian sequences of limbs, so that no value ever leaves the      *)
(* range of machine integers.                                              *)
(***************************************************************************)
EXTENDS Integers, Sequences, FiniteSets, TLC

VARIABLES appCoin, lastConf, calls, wire, balIn, balHex, balOut, arg, ret, scrambleKeys

vars == <<appCoin, lastConf, calls, wire, balIn, balHex, balOut, arg, ret, scrambleKeys>>

sessionVars == <<appCoin, lastConf, calls, wire>>

balanceVars == <<balIn, balHex, balOut>>

\* the argument and the result of a function applied on its own
pureVars == <<arg, ret>>

\* the transport of the session: the keys given to its setScrambleKey, in
\* the order of the calls
transportVars == <<scrambleKeys>>

(***************************************************************************)
(* Bounds of the model.                                                    *)
(***************************************************************************)
\* number of calls that may be pending on the session at the same time
MaxCalls == 2

\* every decimal numeral of at most this many digits is a balance input
MaxDigits == 3

\* longest account path, in segments
MaxPathLen == 3

(***************************************************************************)
(* JavaScript values.                                                      *)
(***************************************************************************)
\* the value of a field that was never assigned / an omitted optional field
Undefined == <<"undefined">>

\* JavaScript truthiness of an optional string: absent and "" are falsy
Truthy(s) == s # Undefined /\ s # <<>>

Min(a, b) == IF a < b THEN a ELSE b

Digits == <<"0", "1", "2", "3", "4", "5", "6", "7", "8", "9">>

HexLower == <<"0", "1", "2", "3", "4", "5", "6", "7", "8", "9", "a", "b", "c", "d", "e", "f">>

HexUpper == <<"0", "1", "2", "3", "4", "5", "6", "7", "8", "9", "A", "B", "C", "D", "E", "F">>

Range(s) == {s[i] : i \in DOMAIN s}

DigitChars == {"0", "1", "2", "3", "4", "5", "6", "7", "8", "9"}

HexChars ==
  {"0", "1", "2", "3", "4", "5", "6", "7", "8", "9", "a", "b", "c", "d", "e", "f", "A", "B", "C", "D", "E", "F"}

IsDigit(c) == c \in DigitChars

IsHexChar(c) == c \in HexChars

\* value of a hexadecimal digit character, either case
HexValues ==
  "0" :> 0 @@ "1" :> 1 @@ "2" :> 2 @@ "3" :> 3 @@ "4" :> 4 @@ "5" :> 5 @@ "6" :> 6 @@ "7" :> 7
  @@ "8" :> 8 @@ "9" :> 9 @@ "a" :> 10 @@ "b" :> 11 @@ "c" :> 12 @@ "d" :> 13 @@ "e" :> 14 @@ "f" :> 15
  @@ "A" :> 10 @@ "B" :> 11 @@ "C" :> 12 @@ "D" :> 13 @@ "E" :> 14 @@ "F" :> 15

HexVal(c) == HexValues[c]

Reverse(s) == [i \in 1..Len(s) |-> s[Len(s) + 1 - i]]

Repeat(x, n) == [i \in 1..n |-> x]

\* String.prototype.startsWith
StartsWith(s, prefix) ==
  /\ Len(prefix) <= Len(s)
  /\ SubSeq(s, 1, Len(prefix)) = prefix

\* String.prototype.substr(n)
Substr(s, n) == SubSeq(s, n + 1, Len(s))

(***************************************************************************)
(* big-integer: parsing a numeral in a radix and printing it in a radix.   *)
(* A value is the little-endian sequence of its base 65536 limbs, without  *)
(* a most significant zero limb.                                           *)
(***************************************************************************)
Limb == 65536

\* ds * m + carry on a little-endian limb sequence in the given base
RECURSIVE MulAdd(_, _, _, _)
MulAdd(ds, base, m, carry) ==
  IF ds = <<>>
    THEN IF carry = 0 THEN <<>>
         ELSE <<carry % base>> \o MulAdd(<<>>, base, m, carry \div base)
    ELSE LET t == Head(ds) * m + carry
         IN  <<t % base>> \o MulAdd(Tail(ds), base, m, t \div base)

\* the value of big-endian digits in radix `from`, as limbs in base `to`
RECURSIVE Convert(_, _, _, _)
Convert(be, from, to, acc) ==
  IF be = <<>> THEN acc
  ELSE Convert(Tail(be), from, to, MulAdd(acc, to, from, Head(be)))

\* bigInt(value, 10) throws on the empty string and on a string with a
\* character that is no decimal digit (numerals with a sign are not among
\* the inputs of the model)
bigIntValid10(value) == value # <<>> /\ \A i \in DOMAIN value : IsDigit(value[i])

bigInt10(value) == Convert([i \in DOMAIN value |-> HexVal(value[i])], 10, Limb, <<>>)

\* bigInt(value, 16)
bigInt16(value) == Convert([i \in DOMAIN value |-> HexVal(value[i])], 16, Limb, <<>>)

\* the digits of a numeral without its leading zeros; "0" for zero
StripZeros(str) ==
  LET nz == {i \in DOMAIN str : str[i] # "0"}
  IN  IF nz = {} THEN <<"0">>
      ELSE SubSeq(str, CHOOSE i \in nz : \A j \in nz : i <= j, Len(str))

\* the digits of little-endian limbs of `width` digits each in the radix
LimbDigits(n, radix, width, chars) ==
  [i \in 1..(width * Len(n)) |->
     LET limb == n[Len(n) - ((i - 1) \div width)]
         pos  == width - 1 - ((i - 1) % width)
     IN  chars[((limb \div (radix ^ pos)) % radix) + 1]]

\* bigInt.toString(16): lower case, no leading zeros, "0" for zero
toString16(n) == StripZeros(LimbDigits(n, 16, 4, HexLower))

\* bigInt.toString(): decimal, no leading zeros, "0" for zero
toString10(n) == StripZeros(LimbDigits(Convert(Reverse(n), Limb, 10000, <<>>), 10, 4, Digits))

(***************************************************************************)
(* util.js: balance codec.                                                 *)
(***************************************************************************)
\* a variant that pads one character short (value.length < 31)
encodeBalance_ShortPad(value) ==
  LET hex == toString16(bigInt10(value))
  IN  IF Len(hex) < 31 THEN Repeat("0", 31 - Len(hex)) \o hex ELSE hex

encodeBalance(value) ==
  LET hex == toString16(bigInt10(value))
  IN  IF Len(hex) < 32 THEN Repeat("0", 32 - Len(hex)) \o hex ELSE hex

\* a variant that prints the value in base 16 again instead of base 10
decodeBalance_Hex(value) == toString16(bigInt16(value))

decodeBalance(value) == toString10(bigInt16(value))

(***************************************************************************)
(* Buffer.                                                                 *)
(***************************************************************************)
\* Buffer.alloc(size): zero filled
BufferAlloc(size) == [i \in 1..size |-> 0]

\* buf.writeUInt8(value, offset)
writeUInt8(buf, value, offset) == [buf EXCEPT ![offset + 1] = value]

\* copy of `bytes` into buf at offset, cut at the end of buf (Buffer.copy)
BufferCopy(buf, bytes, offset) ==
  [i \in DOMAIN buf |->
     IF i > offset /\ i - offset <= Len(bytes) THEN bytes[i - offset] ELSE buf[i]]

\* number of bytes Buffer.copy reports
CopyCount(buf, bytes, offset) == Min(Len(bytes), Len(buf) - offset)

\* a path segment is hardened * 2^31 + idx; writeUInt32BE gives its 4 bytes
UInt32BE(segment) ==
  << (IF segment.hardened THEN 128 ELSE 0) + segment.idx \div 16777216,
     (segment.idx \div 65536) % 256,
     (segment.idx \div 256) % 256,
     segment.idx % 256 >>

\* the character pair i (from 0) of a hex string is two hex digits
HexPairOk(str, i) == IsHexChar(str[2 * i + 1]) /\ IsHexChar(str[2 * i + 2])

HexPairVal(str, i) == 16 * HexVal(str[2 * i + 1]) + HexVal(str[2 * i + 2])

\* number of bytes buf.write(str, offset, length, "hex") stores: whole
\* character pairs, at most length, up to the first pair that is not hex
HexWriteCount(str, length) ==
  LET pairs == Min(length, Len(str) \div 2)
      bad   == {i \in 0..(pairs - 1) : ~HexPairOk(str, i)}
  IN  IF bad = {} THEN pairs ELSE CHOOSE i \in bad : \A j \in bad : i <= j

\* whether the hex decoder of the runtime rejects the string (a runtime
\* that raises "Invalid hex string" does so for an odd number of digits and
\* for a pair that is not hex)
HexWriteThrows(str, length, strict) ==
  /\ strict
  /\ \/ Len(str) % 2 # 0
     \/ HexWriteCount(str, length) < Min(length, Len(str) \div 2)

\* buf.write(str, offset, length, "hex"): the buffer afterwards
HexWrite(buf, str, offset, length) ==
  LET n == HexWriteCount(str, length)
  IN  [i \in DOMAIN buf |->
         IF i > offset /\ i - offset <= n THEN HexPairVal(str, i - offset - 1)
         ELSE buf[i]]

\* buf.slice(from, to) for 0 <= from: cut at the end of the buffer
BufferSlice(buf, from, to) == SubSeq(buf, from + 1, Min(to, Len(buf)))

\* buf.toString("hex")
HexString(bytes) ==
  [i \in 1..(2 * Len(bytes)) |->
     IF i % 2 = 1 THEN HexLower[(bytes[(i + 1) \div 2] \div 16) + 1]
     ELSE HexLower[(bytes[i \div 2] % 16) + 1]]

(***************************************************************************)
(* nano-base32 and blakejs, used by decodeAddress.                         *)
(***************************************************************************)
Base32Alphabet ==
  << "1", "3", "4", "5", "6", "7", "8", "9", "a", "b", "c", "d", "e", "f", "g", "h",
     "i", "j", "k", "m", "n", "o", "p", "q", "r", "s", "t", "u", "w", "x", "y", "z" >>

Base32Chars ==
  {"1", "3", "4", "5", "6", "7", "8", "9", "a", "b", "c", "d", "e", "f", "g", "h",
   "i", "j", "k", "m", "n", "o", "p", "q", "r", "s", "t", "u", "w", "x", "y", "z"}

\* index of a character in the alphabet
Base32Values ==
  "1" :> 0 @@ "3" :> 1 @@ "4" :> 2 @@ "5" :> 3 @@ "6" :> 4 @@ "7" :> 5 @@ "8" :> 6 @@ "9" :> 7
  @@ "a" :> 8 @@ "b" :> 9 @@ "c" :> 10 @@ "d" :> 11 @@ "e" :> 12 @@ "f" :> 13 @@ "g" :> 14 @@ "h" :> 15
  @@ "i" :> 16 @@ "j" :> 17 @@ "k" :> 18 @@ "m" :> 19 @@ "n" :> 20 @@ "o" :> 21 @@ "p" :> 22 @@ "q" :> 23
  @@ "r" :> 24 @@ "s" :> 25 @@ "t" :> 26 @@ "u" :> 27 @@ "w" :> 28 @@ "x" :> 29 @@ "y" :> 30 @@ "z" :> 31

\* nanoBase32.decode for a string over the alphabet: the 5-bit groups, padded
\* on the left to whole bytes, the padding byte dropped
Base32Decode(input) ==
  LET leftover == (Len(input) * 5) % 8
      offset   == IF leftover = 0 THEN 0 ELSE 8 - leftover
      \* bit j (from 0) of the padded bit string
      Bit(j)   == IF j < offset THEN 0
                  ELSE (Base32Values[input[((j - offset) \div 5) + 1]]
                          \div (2 ^ (4 - ((j - offset) % 5)))) % 2
      Byte(k)  == 128 * Bit(8 * k) + 64 * Bit(8 * k + 1) + 32 * Bit(8 * k + 2)
                    + 16 * Bit(8 * k + 3) + 8 * Bit(8 * k + 4) + 4 * Bit(8 * k + 5)
                    + 2 * Bit(8 * k + 6) + Bit(8 * k + 7)
      first    == IF leftover = 0 THEN 0 ELSE 1
  IN  [k \in 1..(((offset + 5 * Len(input)) \div 8) - first) |-> Byte(k - 1 + first)]

\* blake2b(input, null, outlen) is a hash outside this repository; here it
\* is a fixed function of the input bytes giving outlen bytes
RECURSIVE WeightedSum(_, _, _, _)
WeightedSum(bytes, k, i, acc) ==
  IF i > Len(bytes) THEN acc
  ELSE WeightedSum(bytes, k, i + 1, (acc * (k + 2) + bytes[i] + 1) % 251)

blake2b(input, outlen) == [k \in 1..outlen |-> WeightedSum(input, k, 1, k)]

(***************************************************************************)
(* util.js: decodeAddress.                                                 *)
(***************************************************************************)
\* the character class [0-9a-km-uw-z] of the address pattern: every digit,
\* and every lower case letter but l and v (the letters of the alphabet)
AddressClassChars == DigitChars \cup Base32Chars

InAddressClass(c) == c \in AddressClassChars

\* /[13][0-9a-km-uw-z]{59}/.test(address): the pattern is not anchored
AddressPatternMatches(address) ==
  \E s \in 1..(Len(address) - 59) :
     /\ address[s] \in {"1", "3"}
     /\ \A i \in 1..59 : InAddressClass(address[s + i])

\* the loop over allowedPrefixes: the first prefix that matches is removed
RECURSIVE StripPrefix(_, _)
StripPrefix(address, allowedPrefixes) ==
  IF allowedPrefixes = <<>> THEN address
  ELSE IF StartsWith(address, Head(allowedPrefixes))
       THEN Substr(address, Len(Head(allowedPrefixes)))
       ELSE StripPrefix(address, Tail(allowedPrefixes))

\* the decoded bytes split into the key and its checksum, and compared
VerifyChecksum(bytes) ==
  IF SubSeq(bytes, 33, Len(bytes))
       # Reverse(blake2b(SubSeq(bytes, 1, Min(32, Len(bytes))), 5))
    THEN [kind |-> "null", key |-> <<>>]
    ELSE [kind |-> "key", key |-> SubSeq(bytes, 1, Min(32, Len(bytes)))]

\* decodeAddress after the prefix was removed
DecodeStripped(a) ==
  IF ~AddressPatternMatches(a) THEN [kind |-> "null", key |-> <<>>]
  ELSE IF \E i \in DOMAIN a : a[i] \notin Base32Chars
       THEN [kind |-> "throw", key |-> <<>>]
       ELSE VerifyChecksum(Base32Decode(a))

\* decodeAddress: kind "key" with the public key, kind "null", or kind
\* "throw" when nanoBase32.decode meets a character outside its alphabet
decodeAddress(address, allowedPrefixes) ==
  DecodeStripped(StripPrefix(address, allowedPrefixes))

(***************************************************************************)
(* api.js: coin configuration and the block descriptor classifier.         *)
(***************************************************************************)
\* the coin configuration the Banano session is constructed with
CoinBanano ==
  [coinName               |-> <<"B", "a", "n", "a", "n", "o">>,
   addressPrimaryPrefix   |-> <<"b", "a", "n", "_">>,
   addressSecondaryPrefix |-> <<"b", "a", "n", "_">>]

\* the coin configuration of the Nano api: the prefixes it accepts, nano_
\* before xrb_
CoinNano ==
  [coinName               |-> <<"N", "a", "n", "o">>,
   addressPrimaryPrefix   |-> <<"n", "a", "n", "o", "_">>,
   addressSecondaryPrefix |-> <<"x", "r", "b", "_">>]

addressPrefixes(coin) == <<coin.addressPrimaryPrefix, coin.addressSecondaryPrefix>>

\* /[0-9]+/.test(balance): the pattern is not anchored
BalancePatternMatches(balance) == \E i \in DOMAIN balance : IsDigit(balance[i])

\* a classifier that takes any field combination
UnsupportedConfiguration_None(b) == FALSE

\* none of isOpenBlock, isReceiveBlock, isSendBlock, isChangeBlock holds
UnsupportedConfiguration(b) ==
  LET prev == Truthy(b.previousBlock)
      src  == Truthy(b.sourceBlock)
      rcp  == Truthy(b.recipient)
      isOpenBlock    == ~prev /\ src /\ ~rcp
      isReceiveBlock == prev /\ src /\ ~rcp
      isSendBlock    == prev /\ ~src /\ rcp
      isChangeBlock  == prev /\ ~src /\ ~rcp
  IN  ~isOpenBlock /\ ~isReceiveBlock /\ ~isSendBlock /\ ~isChangeBlock

\* the checks of processBlockData in their order, given the decoded
\* representative and recipient: the field of the first error thrown
BlockDataError(b, rep, rcp) ==
  IF Truthy(b.previousBlock) /\ Len(b.previousBlock) # 64 THEN "previousBlock"
  ELSE IF rep.kind = "throw" THEN "InvalidCharacter"
  ELSE IF rep.kind = "null" THEN "representative"
  ELSE IF ~BalancePatternMatches(b.balance) THEN "balance"
  ELSE IF Truthy(b.sourceBlock) /\ Len(b.sourceBlock) # 64 THEN "sourceBlock"
  ELSE IF Truthy(b.recipient) /\ rcp.kind = "throw" THEN "InvalidCharacter"
  ELSE IF Truthy(b.recipient) /\ rcp.kind = "null" THEN "recipient"
  ELSE IF UnsupportedConfiguration(b) THEN "blockData"
  ELSE "none"

ProcessedBlockData(b, rep, rcp) ==
  [err |-> BlockDataError(b, rep, rcp),
   representativePublicKey |-> rep.key,
   hasRecipientPublicKey   |-> rcp.kind = "key",
   recipientPublicKey      |-> rcp.key]

\* processBlockData: err names the field of the error thrown ("none" when
\* the block data is taken), with the decoded keys
processBlockData(c, b) ==
  ProcessedBlockData(b,
    decodeAddress(b.representative, addressPrefixes(c)),
    IF Truthy(b.recipient)
      THEN decodeAddress(b.recipient, addressPrefixes(c))
      ELSE [kind |-> "null", key |-> <<>>])

(***************************************************************************)
(* api.js: request frames.                                                 *)
(***************************************************************************)
\* what BIPPath.fromString(path) throws on
BadPath == <<[hardened |-> FALSE, idx |-> -1]>>

\* the path length byte and the big-endian segments, written from offset 0
WritePath(buf, bipPath) ==
  [i \in DOMAIN buf |->
     IF i = 1 THEN Len(bipPath)
     ELSE IF i <= 1 + 4 * Len(bipPath)
          THEN UInt32BE(bipPath[(i + 2) \div 4])[((i - 2) % 4) + 1]
          ELSE buf[i]]

\* one buf.write(str, ptr, buf.length - ptr, "hex") of a frame under
\* construction st = [threw, buf, ptr]
WriteHexField(st, str, strict) ==
  IF st.threw THEN st
  ELSE IF HexWriteThrows(str, Len(st.buf) - st.ptr, strict)
       THEN [st EXCEPT !.threw = TRUE]
       ELSE [threw |-> FALSE,
             buf   |-> HexWrite(st.buf, str, st.ptr, Len(st.buf) - st.ptr),
             ptr   |-> st.ptr + HexWriteCount(str, Len(st.buf) - st.ptr)]

\* one key.copy(buf, ptr)
WriteKeyField(st, key) ==
  IF st.threw THEN st
  ELSE [threw |-> FALSE,
        buf   |-> BufferCopy(st.buf, key, st.ptr),
        ptr   |-> st.ptr + CopyCount(st.buf, key, st.ptr)]

\* ptr += 32 over a field left zero
SkipField(st) == IF st.threw THEN st ELSE [st EXCEPT !.ptr = st.ptr + 32]

\* the buffer of the given size with the path written, ptr behind it
WritePathField(size, bipPath) ==
  [threw |-> FALSE,
   buf   |-> WritePath(BufferAlloc(size), bipPath),
   ptr   |-> 1 + 4 * Len(bipPath)]

\* the first slot: previousBlock, or 32 bytes left zero
WritePreviousBlock(st, b, strict) ==
  IF Truthy(b.previousBlock)
    THEN WriteHexField(st, b.previousBlock, strict)
    ELSE SkipField(st)

\* the second slot: sourceBlock, else the recipient key, else left zero
WriteSourceOrRecipient(st, b, pbd, strict) ==
  IF Truthy(b.sourceBlock) THEN WriteHexField(st, b.sourceBlock, strict)
  ELSE IF pbd.hasRecipientPublicKey
       THEN WriteKeyField(st, pbd.recipientPublicKey)
       ELSE SkipField(st)

\* the balance: encodeBalance throws on a numeral bigInt does not parse
WriteBalance(st, b, strict) ==
  IF ~bigIntValid10(b.balance) THEN [st EXCEPT !.threw = TRUE]
  ELSE WriteHexField(st, encodeBalance(b.balance), strict)

\* the fields signBlock and cacheBlock both write into a buffer of the given
\* size: path, previousBlock, sourceBlock / recipient, representative, balance
BlockFields(size, bipPath, b, pbd, strict) ==
  WriteBalance(
    WriteKeyField(
      WriteSourceOrRecipient(
        WritePreviousBlock(WritePathField(size, bipPath), b, strict),
        b, pbd, strict),
      pbd.representativePublicKey),
    b, strict)

NoFrame == [cla |-> 0, ins |-> 0, p1 |-> 0, p2 |-> 0, data |-> <<>>]

\* the part of each api function up to its transport.send: err "none" and
\* the frame handed to the transport, or the error thrown with no frame
Thrown(err) == [err |-> err, frame |-> NoFrame]

Sent(ins, p1, p2, data) ==
  [err |-> "none", frame |-> [cla |-> 161, ins |-> ins, p1 |-> p1, p2 |-> p2, data |-> data]]

getAppConfigurationRequest(coin) == Sent(1, 0, 0, BufferAlloc(0))

getAddressRequest(coin, path, boolDisplay) ==
  IF path = BadPath THEN Thrown("path")
  ELSE Sent(2, IF boolDisplay THEN 1 ELSE 0, 0,
            WritePath(BufferAlloc(1 + 4 * Len(path)), path))

\* signBlock with the two bits of p2 exchanged
SignP2_Swapped(coin, b) ==
  IF coin.addressPrimaryPrefix # coin.addressSecondaryPrefix
    THEN (IF Truthy(b.recipient) /\ StartsWith(b.recipient, coin.addressSecondaryPrefix)
            THEN 2 ELSE 0)
         + (IF StartsWith(b.representative, coin.addressSecondaryPrefix) THEN 1 ELSE 0)
    ELSE 0

\* bit0: recipient given with the secondary prefix, bit1: representative
SignP2(coin, b) ==
  IF coin.addressPrimaryPrefix # coin.addressSecondaryPrefix
    THEN (IF Truthy(b.recipient) /\ StartsWith(b.recipient, coin.addressSecondaryPrefix)
            THEN 1 ELSE 0)
         + (IF StartsWith(b.representative, coin.addressSecondaryPrefix) THEN 2 ELSE 0)
    ELSE 0

\* the hand-off of a filled buffer, unless a write threw
SendBuffer(ins, p2, st) ==
  IF st.threw THEN Thrown("encoding") ELSE Sent(ins, 0, p2, st.buf)

\* signBlock after processBlockData returned pbd
signBlockBuild(coin, path, b, pbd, strict) ==
  IF pbd.err # "none" THEN Thrown(pbd.err)
  ELSE IF path = BadPath THEN Thrown("path")
  ELSE SendBuffer(4, SignP2(coin, b),
         BlockFields(1 + 4 * Len(path) + 32 + 32 + 32 + 16, path, b, pbd, strict))

signBlockRequest(coin, path, b, strict) ==
  signBlockBuild(coin, path, b, processBlockData(coin, b), strict)

\* cacheBlock after processBlockData returned pbd
cacheBlockBuild(coin, path, b, pbd, signature, strict) ==
  IF pbd.err # "none" THEN Thrown(pbd.err)
  ELSE IF Len(signature) # 128 THEN Thrown("signature")
  ELSE IF path = BadPath THEN Thrown("path")
  ELSE SendBuffer(3, 0,
         WriteHexField(
           BlockFields(1 + 4 * Len(path) + 32 + 32 + 32 + 16 + 64, path, b, pbd, strict),
           signature, strict))

cacheBlockRequest(coin, path, b, signature, strict) ==
  cacheBlockBuild(coin, path, b, processBlockData(coin, b), signature, strict)

(***************************************************************************)
(* Nano.js: the Nano api with its own processBlockData and signBlock.      *)
(***************************************************************************)
\* the checks of processBlockData of Nano.js in their order: the balance is
\* tested for its length, b.balance.length != 32
Nano_BlockDataError(b, rep, rcp) ==
  IF Truthy(b.previousBlock) /\ Len(b.previousBlock) # 64 THEN "previousBlock"
  ELSE IF rep.kind = "throw" THEN "InvalidCharacter"
  ELSE IF rep.kind = "null" THEN "representative"
  ELSE IF Len(b.balance) # 32 THEN "balance"
  ELSE IF Truthy(b.sourceBlock) /\ Len(b.sourceBlock) # 64 THEN "sourceBlock"
  ELSE IF Truthy(b.recipient) /\ rcp.kind = "throw" THEN "InvalidCharacter"
  ELSE IF Truthy(b.recipient) /\ rcp.kind = "null" THEN "recipient"
  ELSE IF UnsupportedConfiguration(b) THEN "blockData"
  ELSE "none"

Nano_ProcessedBlockData(b, rep, rcp) ==
  [err |-> Nano_BlockDataError(b, rep, rcp),
   representativePublicKey |-> rep.key,
   hasRecipientPublicKey   |-> rcp.kind = "key",
   recipientPublicKey      |-> rcp.key]

\* processBlockData of Nano.js; its decodeAddress removes nano_, else xrb_
Nano_processBlockData(b) ==
  Nano_ProcessedBlockData(b,
    decodeAddress(b.representative, addressPrefixes(CoinNano)),
    IF Truthy(b.recipient)
      THEN decodeAddress(b.recipient, addressPrefixes(CoinNano))
      ELSE [kind |-> "null", key |-> <<>>])

\* Nano.signBlock up to its transport.send: the same frame as signBlock of
\* api.js builds for the prefixes nano_ and xrb_, bit0 and bit1 of p2 set
\* for a recipient and a representative that begin with xrb_
Nano_signBlockRequest(path, b, strict) ==
  signBlockBuild(CoinNano, path, b, Nano_processBlockData(b), strict)

(***************************************************************************)
(* api.js: response parsing.                                               *)
(***************************************************************************)
\* the printable ASCII characters, code 32 first (the double quote, the
\* backslash and the back quote are written by name)
Printable ==
  <<
     " ", "!", "DQUOTE", "#", "$", "%", "&", "'", "(", ")", "*", "+", ",", "-", ".", "/",
     "0", "1", "2", "3", "4", "5", "6", "7", "8", "9", ":", ";", "<", "=", ">", "?",
     "@", "A", "B", "C", "D", "E", "F", "G", "H", "I", "J", "K", "L", "M", "N", "O",
     "P", "Q", "R", "S", "T", "U", "V", "W", "X", "Y", "Z", "[", "BSLASH", "]", "^", "_",
     "BQUOTE", "a", "b", "c", "d", "e", "f", "g", "h", "i", "j", "k", "l", "m", "n", "o",
     "p", "q", "r", "s", "t", "u", "v", "w", "x", "y", "z", "{", "|", "}", "~" >>

\* one character of buf.toString("ascii"): the code taken modulo 128; a
\* control character is written CTRL
Chr(code) ==
  LET c == code % 128
  IN  IF 32 <= c /\ c <= 126 THEN Printable[c - 31] ELSE "CTRL"

AsciiString(bytes) == [i \in DOMAIN bytes |-> Chr(bytes[i])]

\* character code of a printable character
Ord(ch) == (CHOOSE i \in 1..95 : Printable[i] = ch) + 31

\* "" + n for a byte value
RECURSIVE NumberString(_)
NumberString(n) ==
  IF n < 10 THEN <<Digits[n + 1]>>
  ELSE Append(NumberString(n \div 10), Digits[(n % 10) + 1])

NoResult == [version |-> <<>>, coinName |-> <<>>, publicKey |-> <<>>, address |-> <<>>,
             blockHash |-> <<>>, signature |-> <<>>, statusCode |-> 0]

Failed(err) == [err |-> err, value |-> NoResult]

\* getAppConfiguration without the implicit name of the 1.0.0 app
getAppConfigurationParse_NoImplicit(buf) ==
  IF Len(buf) < 3 THEN Failed("decode")
  ELSE [err   |-> "none",
        value |-> [NoResult EXCEPT
                     !.version  = NumberString(buf[1]) \o <<".">>
                                    \o NumberString(buf[2]) \o <<".">>
                                    \o NumberString(buf[3]),
                     !.coinName = IF 3 < Len(buf)
                                    THEN AsciiString(BufferSlice(buf, 4, 4 + buf[4]))
                                    ELSE <<>>]]

\* getAppConfiguration after the exchange: readUInt8 past the end throws
getAppConfigurationParse(buf) ==
  IF Len(buf) < 3 THEN Failed("decode")
  ELSE LET versionMajor == buf[1]
           versionMinor == buf[2]
           versionPatch == buf[3]
           coinName ==
             IF 3 < Len(buf)
               THEN LET coinNameLength == buf[4]
                        ptr == 3 + 1 + coinNameLength
                    IN  AsciiString(BufferSlice(buf, ptr - coinNameLength, ptr))
               ELSE IF versionMajor = 1 /\ versionMinor = 0 /\ versionPatch = 0
                    THEN <<"N", "a", "n", "o">>
                    ELSE <<>>
       IN  [err   |-> "none",
            value |-> [NoResult EXCEPT
                         !.version  = NumberString(versionMajor) \o <<".">>
                                        \o NumberString(versionMinor) \o <<".">>
                                        \o NumberString(versionPatch),
                         !.coinName = coinName]]

\* getAddress after the exchange
getAddressParse(buf) ==
  IF Len(buf) <= 32 THEN Failed("decode")
  ELSE LET addressLength == buf[33]
           ptr == 32 + 1 + addressLength
       IN  [err   |-> "none",
            value |-> [NoResult EXCEPT
                         !.publicKey = HexString(BufferSlice(buf, 0, 32)),
                         !.address   = AsciiString(BufferSlice(buf, ptr - addressLength, ptr))]]

\* signBlock after the exchange: slice never throws
signBlockParse(buf) ==
  [err   |-> "none",
   value |-> [NoResult EXCEPT
                !.blockHash = HexString(BufferSlice(buf, 0, 32)),
                !.signature = HexString(BufferSlice(buf, 32, 96))]]

\* cacheBlock after the exchange: the response is not read
cacheBlockParse(buf) == [err |-> "none", value |-> NoResult]

ParseResponse(op, buf) ==
  CASE op = "getAppConfiguration" -> getAppConfigurationParse(buf)
    [] op = "getAddress"          -> getAddressParse(buf)
    [] op = "signBlock"           -> signBlockParse(buf)
    [] op = "cacheBlock"          -> cacheBlockParse(buf)

(***************************************************************************)
(* Inputs: the values the callers and the device are drawn from.           *)
(***************************************************************************)
STATUS_CODES ==
  [SECURITY_STATUS_NOT_SATISFIED   |-> 27010,
   CONDITIONS_OF_USE_NOT_SATISFIED |-> 27013,
   INVALID_SIGNATURE               |-> 27265,
   CACHE_MISS                      |-> 27266]

\* the status codes the modelled device rejects a request with
FrameStatuses == {STATUS_CODES.CONDITIONS_OF_USE_NOT_SATISFIED, STATUS_CODES.CACHE_MISS}

SessionStatuses == {STATUS_CODES.CONDITIONS_OF_USE_NOT_SATISFIED}

KeyRep == [i \in 1..32 |-> (37 * i + 11) % 256]

KeyRcp == [i \in 1..32 |-> (91 * i + 5) % 256]

\* the address of KeyRep under the prefix of the coin: the prefix, then the
\* base 32 digits of the key followed by its reversed 5 byte checksum
AddrRep ==
  << "b", "a", "n", "_", "1", "e", "4", "o", "h", "c", "h", "w", "b", "t", "a", "g",
     "8", "f", "e", "9", "u", "a", "p", "9", "x", "i", "a", "m", "e", "p", "w", "1",
     "n", "q", "7", "g", "y", "7", "3", "s", "d", "t", "3", "t", "j", "m", "h", "k",
     "4", "w", "y", "8", "5", "3", "o", "d", "o", "t", "p", "w", "y", "c", "z", "c" >>

\* the address of KeyRcp
AddrRcp ==
  << "b", "a", "n", "_", "1", "r", "7", "u", "4", "s", "r", "w", "r", "b", "w", "4",
     "u", "n", "w", "b", "9", "u", "k", "b", "n", "m", "z", "o", "o", "f", "a", "i",
     "f", "h", "5", "4", "4", "z", "8", "q", "8", "c", "8", "y", "i", "i", "w", "y",
     "z", "7", "c", "c", "y", "4", "m", "7", "9", "z", "r", "j", "x", "d", "o", "t" >>

\* the last character replaced: the checksum no longer matches
Tamper(address) ==
  [address EXCEPT ![Len(address)] = IF @ = "1" THEN "3" ELSE "1"]

\* the account of KeyRep under a prefix the coin does not accept
AddrForeign ==
  << "x", "r", "b", "_", "1", "e", "4", "o", "h", "c", "h", "w", "b", "t", "a", "g",
     "8", "f", "e", "9", "u", "a", "p", "9", "x", "i", "a", "m", "e", "p", "w", "1",
     "n", "q", "7", "g", "y", "7", "3", "s", "d", "t", "3", "t", "j", "m", "h", "k",
     "4", "w", "y", "8", "5", "3", "o", "d", "o", "t", "p", "w", "y", "c", "z", "c" >>

HashPrev == [i \in 1..64 |-> HexUpper[((7 * i) % 16) + 1]]

HashSrc == [i \in 1..64 |-> HexUpper[((5 * i + 3) % 16) + 1]]

\* 64 characters, one of them not a hex digit
NonHex(hash) == [hash EXCEPT ![10] = "Z"]

SigGood == [i \in 1..128 |-> HexLower[((3 * i) % 16) + 1]]

\* 10^32, the balance of the documented examples
Bal1e32 == <<"1">> \o Repeat("0", 32)

\* 2^128 - 1, the largest 128 bit balance
BalMax ==
  << "3", "4", "0", "2", "8", "2", "3", "6", "6", "9", "2", "0", "9", "3", "8", "4", "6", "3", "4", "6",
       "3", "3", "7", "4", "6", "0", "7", "4", "3", "1", "7", "6", "8", "2", "1", "1", "4", "5", "5" >>

\* 2^128, one more than fits 16 bytes
BalOver ==
  << "3", "4", "0", "2", "8", "2", "3", "6", "6", "9", "2", "0", "9", "3", "8", "4", "6", "3", "4", "6",
       "3", "3", "7", "4", "6", "0", "7", "4", "3", "1", "7", "6", "8", "2", "1", "1", "4", "5", "6" >>

\* 2^124 - 1 and 2^124: 31 and 32 hex digits
Bal31 ==
  << "2", "1", "2", "6", "7", "6", "4", "7", "9", "3", "2", "5", "5", "8", "6", "5", "3", "9", "6", "6",
       "4", "6", "0", "9", "1", "2", "9", "6", "4", "4", "8", "5", "5", "1", "3", "2", "1", "5" >>

Bal32 ==
  << "2", "1", "2", "6", "7", "6", "4", "7", "9", "3", "2", "5", "5", "8", "6", "5", "3", "9", "6", "6",
       "4", "6", "0", "9", "1", "2", "9", "6", "4", "4", "8", "5", "5", "1", "3", "2", "1", "6" >>

RECURSIVE DigitStrings(_)
DigitStrings(n) ==
  IF n = 0 THEN {<<>>}
  ELSE LET shorter == DigitStrings(n - 1)
       IN  shorter \cup {Append(d, c) : d \in {x \in shorter : Len(x) = n - 1},
                                         c \in Range(Digits)}

\* the numerals the balance codec is applied to
BalanceInputs ==
  (DigitStrings(MaxDigits) \ {<<>>}) \cup {Bal1e32, BalMax, BalOver, Bal31, Bal32}

PathSegments ==
  << [hardened |-> TRUE, idx |-> 44], [hardened |-> TRUE, idx |-> 198],
     [hardened |-> FALSE, idx |-> 16909060], [hardened |-> TRUE, idx |-> 0],
     [hardened |-> FALSE, idx |-> 7] >>

PathOf(n) == SubSeq(PathSegments, 1, Min(n, Len(PathSegments)))

FramePaths == {PathOf(n) : n \in 1..MaxPathLen} \cup {BadPath}

SessionPaths == {PathOf(1)}

Block(prev, rep, bal, src, rcp) ==
  [previousBlock |-> prev, representative |-> rep, balance |-> bal,
   sourceBlock |-> src, recipient |-> rcp]

\* the eight presence combinations of the optional fields, every value valid
ShapeBlocks ==
  {Block(prev, AddrRep, Bal1e32, src, rcp) :
     prev \in {Undefined, HashPrev}, src \in {Undefined, HashSrc},
     rcp \in {Undefined, AddrRcp}}

\* block data with one field that is not of the documented form
FaultBlocks ==
  {Block(prev, AddrRep, Bal1e32, HashSrc, Undefined) :
     prev \in {SubSeq(HashPrev, 1, 63), NonHex(HashPrev), <<>>}}
  \cup {Block(HashPrev, AddrRep, Bal1e32, src, Undefined) :
          src \in {SubSeq(HashSrc, 1, 63), NonHex(HashSrc)}}
  \cup {Block(HashPrev, rep, Bal1e32, HashSrc, Undefined) :
          rep \in {Tamper(AddrRep), AddrForeign}}
  \cup {Block(HashPrev, AddrRep, Bal1e32, Undefined, Tamper(AddrRcp))}
  \cup {Block(HashPrev, AddrRep, bal, HashSrc, Undefined) :
          bal \in {<<>>, <<"a", "b", "c">>, <<"1", "2", "a", "b", "c">>,
                   <<"0", "0", "7">>, BalMax, BalOver}}

FrameBlocks == ShapeBlocks \cup FaultBlocks

OpenBlock == Block(Undefined, AddrRep, Bal1e32, HashSrc, Undefined)

SessionBlocks == {OpenBlock, Block(SubSeq(HashPrev, 1, 63), AddrRep, Bal1e32, HashSrc, Undefined)}

FrameSignatures == {SigGood, SubSeq(SigGood, 1, 127), NonHex(SigGood)}

SessionSignatures == {SigGood}

Codes(str) == [i \in DOMAIN str |-> Ord(str[i])]

AppInfoBanano == <<1, 2, 3, 6>> \o Codes(<<"B", "a", "n", "a", "n", "o">>)

AppInfoNano == <<1, 2, 3, 4>> \o Codes(<<"N", "a", "n", "o">>)

AddressResponse == KeyRep \o <<Len(AddrRep)>> \o Codes(AddrRep)

SignResponse == [i \in 1..96 |-> (13 * i) % 256]

\* what the modelled device may answer to a request with the instruction:
\* a response of the documented layout, or a shorter one; it has no answer
\* but a status to any other instruction
FrameResponses(ins) ==
  CASE ins = 1 -> {<<1, 0, 0>>, <<1, 2, 3>>, <<10, 0, 255>>, AppInfoBanano, AppInfoNano,
                   <<1>>, SubSeq(AppInfoBanano, 1, 6)}
    [] ins = 2 -> {AddressResponse, SubSeq(AddressResponse, 1, 20),
                   SubSeq(AddressResponse, 1, 40)}
    [] ins = 3 -> {<<>>}
    [] ins = 4 -> {SignResponse, SubSeq(SignResponse, 1, 40)}
    [] OTHER   -> {}

SessionResponses(ins) ==
  CASE ins = 1 -> {<<1, 2, 3>>, AppInfoBanano, AppInfoNano, <<1>>}
    [] ins = 2 -> {AddressResponse}
    [] ins = 3 -> {<<>>}
    [] ins = 4 -> {SignResponse}
    [] OTHER   -> {}

(***************************************************************************)
(* api.js: BaseAPI and the Banano session.                                 *)
(*                                                                         *)
(* calls[i] is one call of a session method by the application.  The code  *)
(* of an async method up to its first await runs in one step (the coin     *)
(* check, the validation, the building of the frame and transport.send);   *)
(* the transport settles the exchange in a later step; the method that     *)
(* awaited the api function resumes in a step after that.                  *)
(***************************************************************************)
\* the coin configuration of the session (this.coin)
coin == CoinBanano

\* a constructor that leaves the transport as it is
BaseAPIConstructor_NoKey(keys) == keys

\* the constructor of BaseAPI on the transport:
\* transport.setScrambleKey("mRB")
BaseAPIConstructor(keys) == Append(keys, <<"m", "R", "B">>)

NoInput ==
  [path |-> <<>>, boolDisplay |-> FALSE,
   blockData |-> [previousBlock |-> Undefined, representative |-> Undefined,
                  balance |-> Undefined, sourceBlock |-> Undefined,
                  recipient |-> Undefined],
   signature |-> Undefined]

\* no response was received (a byte is never negative)
NoResponse == <<-1>>

IdleCall ==
  [op |-> "none", pc |-> "idle", input |-> NoInput, err |-> "none", nsend |-> 0,
   response |-> NoResponse, result |-> NoResult]

\* a check that also fails while no app name was recorded
assertCorrectCoin_Strict(app, c) ==
  IF app # c.coinName THEN "WrongApp" ELSE "none"

\* a check that takes the empty name for no name
assertCorrectCoin_Truthy(app, c) ==
  IF Truthy(app) /\ app # c.coinName THEN "WrongApp" ELSE "none"

\* BaseAPI._assertCorrectCoin: the error it throws, "none" when it returns
assertCorrectCoin(app, c) ==
  IF app # Undefined /\ app # c.coinName THEN "WrongApp" ELSE "none"

\* a transport hand-off that is repeated once
transportSend_Twice(req) ==
  IF req.err = "none" THEN <<req.frame, req.frame>> ELSE <<>>

\* a transport hand-off that also happens for a request that threw
transportSend_Always(req) == <<req.frame>>

\* the frames a call hands to transport.send: the one frame of a request
\* that was built, none when the code threw before the hand-off
transportSend(req) == IF req.err = "none" THEN <<req.frame>> ELSE <<>>

\* an assignment that is also made when the api function failed
appCoinAfter_Always(app, inner) == inner.result.coinName

\* this._appCoin after BaseAPI.getAppConfiguration resumed from its await
\* with the outcome of the api function: assigned only when it returned
appCoinAfter(app, inner) ==
  IF inner.err = "none" THEN inner.result.coinName ELSE app

\* a session method that checks nothing
Guarded_NoCheck(app, c, req) == req

\* a coin session method: _assertCorrectCoin(), then the api function
Guarded(app, c, req) ==
  IF assertCorrectCoin(app, c) # "none" THEN Thrown(assertCorrectCoin(app, c)) ELSE req

\* a session method runs up to the hand-off of its request to the transport
Start(i, op, input, req) ==
  /\ calls[i].pc = "idle"
  /\ calls' = [calls EXCEPT ![i] =
                 [op     |-> op,
                  pc     |-> IF req.err = "none" THEN "awaitTransport" ELSE "done",
                  input  |-> input,
                  err    |-> req.err,
                  nsend  |-> Len(transportSend(req)),
                  response |-> NoResponse,
                  result |-> NoResult]]
  /\ wire' = wire \o [k \in DOMAIN transportSend(req) |->
                        [call |-> i, frame |-> transportSend(req)[k]]]
  /\ UNCHANGED <<appCoin, lastConf, balanceVars, pureVars, transportVars>>

\* inst._assertCorrectCoin()
CallAssertCorrectCoin(i) ==
  /\ calls[i].pc = "idle"
  /\ calls' = [calls EXCEPT ![i] =
                 [IdleCall EXCEPT !.op = "_assertCorrectCoin", !.pc = "done",
                                  !.err = assertCorrectCoin(appCoin, coin)]]
  /\ UNCHANGED <<appCoin, lastConf, wire, balanceVars, pureVars, transportVars>>

\* a getAppConfiguration that makes the coin check of the other methods
CallGetAppConfiguration_Gated(i) ==
  Start(i, "getAppConfiguration", NoInput,
        Guarded(appCoin, coin, getAppConfigurationRequest(coin)))

\* inst.getAppConfiguration()
CallGetAppConfiguration(i) ==
  Start(i, "getAppConfiguration", NoInput, getAppConfigurationRequest(coin))

\* ban.getAddress(path, boolDisplay)
CallGetAddress(i, path, boolDisplay) ==
  Start(i, "getAddress",
        [NoInput EXCEPT !.path = path, !.boolDisplay = boolDisplay],
        Guarded(appCoin, coin, getAddressRequest(coin, path, boolDisplay)))

\* ban.signBlock(path, blockData); strict: the hex decoder of the runtime
\* raises an error on a string that is not hex
CallSignBlock(i, path, blockData, strict) ==
  Start(i, "signBlock",
        [NoInput EXCEPT !.path = path, !.blockData = blockData],
        Guarded(appCoin, coin, signBlockRequest(coin, path, blockData, strict)))

\* ban.cacheBlock(path, blockData, signature)
CallCacheBlock(i, path, blockData, signature, strict) ==
  Start(i, "cacheBlock",
        [NoInput EXCEPT !.path = path, !.blockData = blockData, !.signature = signature],
        Guarded(appCoin, coin,
                cacheBlockRequest(coin, path, blockData, signature, strict)))

RemoveAt(s, k) == SubSeq(s, 1, k - 1) \o SubSeq(s, k + 1, Len(s))

\* the transport resolves the exchange wire[k] with a response; the api
\* function that awaited it parses the response and settles
TransportResolve(k, resp) ==
  /\ k \in DOMAIN wire
  /\ LET i == wire[k].call
         r == ParseResponse(calls[i].op, resp)
     IN  calls' = [calls EXCEPT ![i].pc = "awaitInner", ![i].err = r.err,
                                ![i].response = resp, ![i].result = r.value]
  /\ wire' = RemoveAt(wire, k)
  /\ UNCHANGED <<appCoin, lastConf, balanceVars, pureVars, transportVars>>

\* the transport rejects the exchange wire[k] with a status error, which the
\* api function does not catch
TransportReject(k, status) ==
  /\ k \in DOMAIN wire
  /\ LET i == wire[k].call
     IN  calls' = [calls EXCEPT ![i].pc = "awaitInner", ![i].err = "transport",
                                ![i].result = [NoResult EXCEPT !.statusCode = status]]
  /\ wire' = RemoveAt(wire, k)
  /\ UNCHANGED <<appCoin, lastConf, balanceVars, pureVars, transportVars>>

\* the session method resumes with the outcome of the api function and
\* settles the promise of the call; getAppConfiguration records the name
Complete(i) ==
  /\ calls[i].pc = "awaitInner"
  /\ calls' = [calls EXCEPT ![i].pc = "done"]
  /\ IF calls[i].op = "getAppConfiguration"
       THEN /\ appCoin' = appCoinAfter(appCoin, calls[i])
            /\ lastConf' = IF calls[i].err = "none"
                             THEN [completed |-> TRUE, coinName |-> calls[i].result.coinName]
                             ELSE lastConf
       ELSE UNCHANGED <<appCoin, lastConf>>
  /\ UNCHANGED <<wire, balanceVars, pureVars, transportVars>>

\* the application drops the settled promise; the slot serves a next call
Forget(i) ==
  /\ calls[i].pc = "done"
  /\ calls' = [calls EXCEPT ![i] = IdleCall]
  /\ UNCHANGED <<appCoin, lastConf, wire, balanceVars, pureVars, transportVars>>

(***************************************************************************)
(* The session under concurrent calls.                                     *)
(***************************************************************************)
InitSession(n) ==
  /\ appCoin = Undefined
  /\ lastConf = [completed |-> FALSE, coinName |-> Undefined]
  /\ calls = [i \in 1..n |-> IdleCall]
  /\ wire = <<>>
  /\ balIn = Undefined
  /\ balHex = Undefined
  /\ balOut = Undefined
  /\ arg = Undefined
  /\ ret = Undefined
  /\ scrambleKeys = BaseAPIConstructor(<<>>)

Init == InitSession(MaxCalls)

Next ==
  \/ \E i \in DOMAIN calls : CallAssertCorrectCoin(i)
  \/ \E i \in DOMAIN calls : CallGetAppConfiguration(i)
  \/ \E i \in DOMAIN calls, path \in SessionPaths : CallGetAddress(i, path, TRUE)
  \/ \E i \in DOMAIN calls, path \in SessionPaths, b \in SessionBlocks,
        strict \in BOOLEAN : CallSignBlock(i, path, b, strict)
  \/ \E i \in DOMAIN calls, path \in SessionPaths, b \in SessionBlocks,
        sig \in SessionSignatures, strict \in BOOLEAN :
       CallCacheBlock(i, path, b, sig, strict)
  \/ \E k \in DOMAIN wire : \E resp \in SessionResponses(wire[k].frame.ins) :
       TransportResolve(k, resp)
  \/ \E k \in DOMAIN wire, status \in SessionStatuses : TransportReject(k, status)
  \/ \E i \in DOMAIN calls : Complete(i)
  \/ \E i \in DOMAIN calls : Forget(i)

Spec == Init /\ [][Next]_vars

(***************************************************************************)
(* One call at a time, over every input of the frame builders.             *)
(***************************************************************************)
InitFrame == InitSession(1)

NextFrame ==
  \/ CallAssertCorrectCoin(1)
  \/ CallGetAppConfiguration(1)
  \/ \E path \in FramePaths, boolDisplay \in BOOLEAN : CallGetAddress(1, path, boolDisplay)
  \/ \E path \in FramePaths, b \in FrameBlocks, strict \in BOOLEAN :
       CallSignBlock(1, path, b, strict)
  \/ \E path \in FramePaths, b \in FrameBlocks, sig \in FrameSignatures,
        strict \in BOOLEAN : CallCacheBlock(1, path, b, sig, strict)
  \/ \E k \in DOMAIN wire : \E resp \in FrameResponses(wire[k].frame.ins) :
       TransportResolve(k, resp)
  \/ \E k \in DOMAIN wire, status \in FrameStatuses : TransportReject(k, status)
  \/ Complete(1)
  \/ Forget(1)

SpecFrame == InitFrame /\ [][NextFrame]_vars

(***************************************************************************)
(* The balance codec applied to a numeral.                                 *)
(***************************************************************************)
InitBalance ==
  /\ appCoin = Undefined
  /\ lastConf = [completed |-> FALSE, coinName |-> Undefined]
  /\ calls = [i \in 1..1 |-> IdleCall]
  /\ wire = <<>>
  /\ balIn \in BalanceInputs
  /\ balHex = Undefined
  /\ balOut = Undefined
  /\ arg = Undefined
  /\ ret = Undefined
  /\ scrambleKeys = <<>>

\* hex = encodeBalance(value)
Encode ==
  /\ balHex = Undefined
  /\ balHex' = encodeBalance(balIn)
  /\ UNCHANGED <<balIn, balOut, sessionVars, pureVars, transportVars>>

\* decodeBalance(hex)
Decode ==
  /\ balHex # Undefined
  /\ balOut = Undefined
  /\ balOut' = decodeBalance(balHex)
  /\ UNCHANGED <<balIn, balHex, sessionVars, pureVars, transportVars>>

NextBalance == Encode \/ Decode

SpecBalance == InitBalance /\ [][NextBalance]_vars

(***************************************************************************)
(* signBlock applied to block data under a coin configuration, up to the   *)
(* hand-off of its request.                                                *)
(***************************************************************************)
\* the account of an address under another prefix
WithPrefix(prefix, address) == prefix \o SubSeq(address, 5, Len(address))

\* the prefixes an address is supplied with
HeaderPrefixes ==
  {CoinBanano.addressPrimaryPrefix, CoinNano.addressPrimaryPrefix,
   CoinNano.addressSecondaryPrefix}

\* the coins, paths and block data signBlock is applied to: each optional
\* field present or absent, each address under each prefix
HeaderInputs ==
  [coin : {CoinBanano, CoinNano},
   path : {PathOf(1), PathOf(MaxPathLen)},
   blockData :
     {Block(prev, WithPrefix(p1, AddrRep), Bal1e32, src, rcp) :
        prev \in {Undefined, HashPrev}, src \in {Undefined, HashSrc},
        p1 \in HeaderPrefixes,
        rcp \in {Undefined} \cup {WithPrefix(p2, AddrRcp) : p2 \in HeaderPrefixes}}]

\* signBlock has not been applied
NotApplied == [err |-> "notApplied", frame |-> NoFrame]

InitHeader ==
  /\ appCoin = Undefined
  /\ lastConf = [completed |-> FALSE, coinName |-> Undefined]
  /\ calls = [i \in 1..1 |-> IdleCall]
  /\ wire = <<>>
  /\ balIn = Undefined
  /\ balHex = Undefined
  /\ balOut = Undefined
  /\ arg \in HeaderInputs
  /\ ret = NotApplied
  /\ scrambleKeys = <<>>

\* signBlock(coin, transport, path, blockData) up to transport.send
ApplySignBlock ==
  /\ ret = NotApplied
  /\ \E strict \in BOOLEAN :
       ret' = signBlockRequest(arg.coin, arg.path, arg.blockData, strict)
  /\ UNCHANGED <<arg, sessionVars, balanceVars, transportVars>>

NextHeader == ApplySignBlock

SpecHeader == InitHeader /\ [][NextHeader]_vars

(***************************************************************************)
(* decodeAddress applied to an address and the prefixes of a coin.         *)
(***************************************************************************)
\* the character at a position replaced
ReplaceAt(address, pos, c) == [address EXCEPT ![pos] = c]

\* characters that are not symbols of the base 32 alphabet (0 and 2 are in
\* the character class of the address pattern; l, v, _ and A are not), and
\* 4, which is a symbol but not a leading character
OddChars == {"0", "2", "l", "v", "_", "A", "4"}

\* the leading character, two characters of the key and the first and the
\* last character of the checksum
OddPositions == {5, 6, 30, 57, 64}

\* the addresses decodeAddress is applied to: valid accounts under each
\* prefix, and accounts with a character replaced, removed or added
AddressInputs ==
  [allowedPrefixes : {addressPrefixes(CoinBanano), addressPrefixes(CoinNano)},
   address :
     UNION {{WithPrefix(p, a), Tamper(WithPrefix(p, a)),
             SubSeq(WithPrefix(p, a), 1, Len(p) + 59),
             WithPrefix(p, a) \o <<"1">>,
             p \o <<"1">> \o SubSeq(a, 5, Len(a))}
            \cup {ReplaceAt(WithPrefix(p, a), Len(p) - 4 + pos, c) :
                    pos \in OddPositions, c \in OddChars} :
            p \in HeaderPrefixes \cup {<<>>}, a \in {AddrRep, AddrRcp}}
     \cup {<<>>}]

\* decodeAddress has not been applied
NotDecoded == [kind |-> "notApplied", key |-> <<>>]

InitAddress ==
  /\ appCoin = Undefined
  /\ lastConf = [completed |-> FALSE, coinName |-> Undefined]
  /\ calls = [i \in 1..1 |-> IdleCall]
  /\ wire = <<>>
  /\ balIn = Undefined
  /\ balHex = Undefined
  /\ balOut = Undefined
  /\ arg \in AddressInputs
  /\ ret = NotDecoded
  /\ scrambleKeys = <<>>

\* decodeAddress(address, allowedPrefixes)
ApplyDecodeAddress ==
  /\ ret = NotDecoded
  /\ ret' = decodeAddress(arg.address, arg.allowedPrefixes)
  /\ UNCHANGED <<arg, sessionVars, balanceVars, transportVars>>

NextAddress == ApplyDecodeAddress

SpecAddress == InitAddress /\ [][NextAddress]_vars

(***************************************************************************)
(* signBlock of the Nano api applied to block data, up to the hand-off of  *)
(* its request.                                                            *)
(***************************************************************************)
\* 10^31, a numeral of 32 digits
Bal1e31 == <<"1">> \o Repeat("0", 31)

\* the balance of the encodeBalance example, as the 32 hex digits of its
\* encoding
BalHex32 ==
  << "0", "0", "0", "0", "0", "0", "0", "0", "0", "0", "0", "B", "9", "4", "9", "D",
     "8", "5", "4", "F", "3", "4", "F", "E", "C", "E", "0", "0", "0", "0", "0", "0" >>

\* the account addresses of the documented examples: the representative
\* under xrb_, the recipient under nano_
NanoRepresentative == WithPrefix(CoinNano.addressSecondaryPrefix, AddrRep)

NanoRecipient == WithPrefix(CoinNano.addressPrimaryPrefix, AddrRcp)

\* the documented block data for opening an account and for sending funds
NanoOpenExample == Block(Undefined, NanoRepresentative, Bal1e32, HashSrc, Undefined)

NanoSendExample == Block(HashPrev, NanoRepresentative, Bal1e32, Undefined, NanoRecipient)

\* the paths and block data Nano.signBlock is applied to: each optional
\* field present or absent, balances of 33, 32, 3 and 0 characters
NanoInputs ==
  [path : {PathOf(1), PathOf(MaxPathLen)},
   blockData :
     {Block(prev, rep, bal, src, rcp) :
        prev \in {Undefined, HashPrev}, src \in {Undefined, HashSrc},
        rep \in {NanoRepresentative, WithPrefix(CoinNano.addressPrimaryPrefix, AddrRep)},
        rcp \in {Undefined, NanoRecipient,
                 WithPrefix(CoinNano.addressSecondaryPrefix, AddrRcp)},
        bal \in {Bal1e32, Bal1e31, BalHex32, <<"1", "0", "0">>, <<>>}}]

InitNano ==
  /\ appCoin = Undefined
  /\ lastConf = [completed |-> FALSE, coinName |-> Undefined]
  /\ calls = [i \in 1..1 |-> IdleCall]
  /\ wire = <<>>
  /\ balIn = Undefined
  /\ balHex = Undefined
  /\ balOut = Undefined
  /\ arg \in NanoInputs
  /\ ret = NotApplied
  /\ scrambleKeys = <<>>

\* nano.signBlock(path, blockData) up to transport.send
ApplyNanoSignBlock ==
  /\ ret = NotApplied
  /\ \E strict \in BOOLEAN :
       ret' = Nano_signBlockRequest(arg.path, arg.blockData, strict)
  /\ UNCHANGED <<arg, sessionVars, balanceVars, transportVars>>

NextNano == ApplyNanoSignBlock

SpecNano == InitNano /\ [][NextNano]_vars

(***************************************************************************)
(* Properties.  What the documentation says of the program, stated over    *)
(* the inputs of a call and what the call did.                             *)
(***************************************************************************)
\* the four documented block shapes, by the fields that are supplied
FourShapes(b) ==
  \/ ~Truthy(b.previousBlock) /\ Truthy(b.sourceBlock) /\ ~Truthy(b.recipient)
  \/ Truthy(b.previousBlock) /\ Truthy(b.sourceBlock) /\ ~Truthy(b.recipient)
  \/ Truthy(b.previousBlock) /\ ~Truthy(b.sourceBlock) /\ Truthy(b.recipient)
  \/ Truthy(b.previousBlock) /\ ~Truthy(b.sourceBlock) /\ ~Truthy(b.recipient)

\* the errors processBlockData throws
BlockDataErrors ==
  {"previousBlock", "InvalidCharacter", "representative", "balance", "sourceBlock",
   "recipient", "blockData"}

\* the errors signBlock and cacheBlock throw while they check and encode
\* their input
ValidationErrors == BlockDataErrors \cup {"signature", "encoding"}

IsBlockCall(c) == c.op \in {"signBlock", "cacheBlock"}

\* the exchanges of call i that the transport has not settled
Outstanding(i) == {k \in DOMAIN wire : wire[k].call = i}

\* C1: with every supplied field valid, processBlockData takes the block
\* data if and only if the supplied fields form one of the four shapes Open,
\* Receive, Send, Change; each of the other four combinations is rejected as
\* an unsupported configuration.
C1_FourShapes ==
  \A i \in DOMAIN calls :
    LET c == calls[i]
    IN  (IsBlockCall(c) /\ c.err # "WrongApp" /\ c.input.blockData \in ShapeBlocks)
          => /\ FourShapes(c.input.blockData) => c.err \notin BlockDataErrors
             /\ ~FourShapes(c.input.blockData) => c.err = "blockData"

\* a signBlock call with previousBlock, sourceBlock and recipient all given
\* was rejected
C1_Witness ==
  \E i \in DOMAIN calls :
    /\ calls[i].op = "signBlock"
    /\ calls[i].input.blockData = Block(HashPrev, AddrRep, Bal1e32, HashSrc, AddrRcp)
    /\ calls[i].err = "blockData"

\* the outcome of _assertCorrectCoin the documentation gives, from the last
\* getAppConfiguration that returned
ExpectedCoinCheck ==
  IF ~lastConf.completed THEN "none"
  ELSE IF lastConf.coinName # coin.coinName THEN "WrongApp"
  ELSE "none"

\* C2: every _assertCorrectCoin returns without an error while no
\* getAppConfiguration has returned, throws when the last one that returned
\* gave a coin name other than the configured one, and returns without an
\* error when it gave the configured name.
C2_AssertCorrectCoin ==
  [][\A i \in DOMAIN calls :
       (calls[i].pc = "idle" /\ calls'[i].op = "_assertCorrectCoin")
         => calls'[i].err = ExpectedCoinCheck]_vars

\* _assertCorrectCoin threw after getAppConfiguration returned the name Nano
C2_Witness ==
  \E i \in DOMAIN calls :
    /\ calls[i].op = "_assertCorrectCoin"
    /\ calls[i].err = "WrongApp"
    /\ lastConf.completed
    /\ lastConf.coinName = <<"N", "a", "n", "o">>
    /\ appCoin = lastConf.coinName

\* C3: a getAddress, signBlock or cacheBlock that is called while a recorded
\* app name differs from the configured coin name fails with the wrong-app
\* error, and hands nothing to the transport.
C3_WrongAppNoSend ==
  [][\A i \in DOMAIN calls :
       (/\ calls[i].pc = "idle"
        /\ calls'[i].op \in {"getAddress", "signBlock", "cacheBlock"}
        /\ appCoin # Undefined
        /\ appCoin # coin.coinName)
         => /\ calls'[i].err = "WrongApp"
            /\ calls'[i].pc = "done"
            /\ calls'[i].nsend = 0
            /\ wire' = wire]_vars

\* signBlock failed with the wrong-app error while the name Nano is recorded
C3_Witness ==
  \E i \in DOMAIN calls :
    /\ calls[i].op = "signBlock"
    /\ calls[i].err = "WrongApp"
    /\ calls[i].nsend = 0
    /\ Outstanding(i) = {}
    /\ appCoin = <<"N", "a", "n", "o">>

\* a hash that is given and is not 64 characters long
WrongLength(hash) == Truthy(hash) /\ Len(hash) # 64

\* an address that does not decode to a public key
Undecodable(address) == decodeAddress(address, addressPrefixes(coin)).kind # "key"

\* a numeral that is not a non-empty sequence of decimal digits
NotDigits(balance) ==
  balance = <<>> \/ \E j \in DOMAIN balance : balance[j] \notin DigitChars

\* input of signBlock or cacheBlock that one of the documented checks refuses
InvalidInput(c) ==
  \/ WrongLength(c.input.blockData.previousBlock)
  \/ WrongLength(c.input.blockData.sourceBlock)
  \/ Undecodable(c.input.blockData.representative)
  \/ Truthy(c.input.blockData.recipient) /\ Undecodable(c.input.blockData.recipient)
  \/ NotDigits(c.input.blockData.balance)
  \/ ~FourShapes(c.input.blockData)
  \/ c.op = "cacheBlock" /\ Len(c.input.signature) # 128

WellFormed(c) ==
  /\ c.input.path # BadPath
  /\ IsBlockCall(c) => c.input.blockData = OpenBlock
  /\ c.op = "cacheBlock" => c.input.signature = SigGood

\* C5: a call of getAppConfiguration, getAddress, signBlock or cacheBlock
\* hands at most one frame to the transport, also after its exchange was
\* rejected, and exactly one once the coin check and the checks of its input
\* have passed.
C5_AtMostOneSend ==
  \A i \in DOMAIN calls :
    LET c == calls[i]
    IN  c.op \in {"getAppConfiguration", "getAddress", "signBlock", "cacheBlock"}
          => /\ c.nsend <= 1
             /\ Cardinality(Outstanding(i)) <= c.nsend
             /\ (c.pc # "done" \/ c.err \in {"none", "transport", "decode"}) => c.nsend = 1
             /\ (WellFormed(c) /\ c.err # "WrongApp") => c.nsend = 1

\* the exchange of a signBlock was rejected: the call failed after one
\* hand-off
C5_Witness ==
  \E i \in DOMAIN calls :
    /\ calls[i].op = "signBlock"
    /\ calls[i].pc = "done"
    /\ calls[i].err = "transport"
    /\ calls[i].nsend = 1

\* call i resumes from a getAppConfiguration of the api that returned
ConfReturns(i) ==
  /\ calls[i].op = "getAppConfiguration"
  /\ calls[i].pc = "awaitInner"
  /\ calls[i].err = "none"
  /\ calls'[i].pc = "done"

\* C6: _appCoin changes only in the step in which a getAppConfiguration
\* that returned completes, and that step sets it to the coin name returned;
\* no other step of any call changes it.
C6_AppCoinFrame ==
  [][/\ appCoin' # appCoin => \E i \in DOMAIN calls : ConfReturns(i)
     /\ \A i \in DOMAIN calls :
          ConfReturns(i) => appCoin' = calls[i].result.coinName]_vars

\* a getAppConfiguration that returned Banano has completed and the name is
\* recorded
C6_Witness ==
  \E i \in DOMAIN calls :
    /\ calls[i].op = "getAppConfiguration"
    /\ calls[i].pc = "done"
    /\ calls[i].err = "none"
    /\ calls[i].result.coinName = coin.coinName
    /\ appCoin = coin.coinName

\* C7 as stated: at most one transport exchange of the session is
\* outstanding at any time.
C7_OneExchangePerSession == Len(wire) <= 1

\* C7, amended: every call has at most one exchange outstanding, and has it
\* exactly while it awaits the transport; calls on one session are not
\* serialised, each can have its own exchange outstanding at the same time.
C7_OneExchangePerCall ==
  \A i \in DOMAIN calls :
    /\ Cardinality(Outstanding(i)) <= 1
    /\ (Outstanding(i) # {}) <=> (calls[i].pc = "awaitTransport")

\* two calls of the session each await their own exchange
C7_Witness ==
  \E i, j \in DOMAIN calls :
    /\ i # j
    /\ calls[i].pc = "awaitTransport"
    /\ calls[j].pc = "awaitTransport"
    /\ Outstanding(i) # {}
    /\ Outstanding(j) # {}
    /\ Len(wire) = 2

\* s is before t in the order of numerals of one length
NumeralLess(s, t) ==
  \E j \in DOMAIN s :
    /\ HexVal(s[j]) < HexVal(t[j])
    /\ \A m \in 1..(j - 1) : s[m] = t[m]

\* a decimal numeral of an integer in 0 .. 2^128 - 1
DenotesBalance(v) ==
  /\ v # <<>>
  /\ \A j \in DOMAIN v : v[j] \in DigitChars
  /\ \/ Len(StripZeros(v)) < Len(BalMax)
     \/ Len(StripZeros(v)) = Len(BalMax) /\ ~NumeralLess(BalMax, StripZeros(v))

NoLeadingZeros(v) == v = <<"0">> \/ v[1] # "0"

\* C8: decodeBalance(encodeBalance(v)) is v for every decimal numeral v
\* without leading zeros of an integer in 0 .. 2^128 - 1.
C8_RoundTrip ==
  (balOut # Undefined /\ DenotesBalance(balIn) /\ NoLeadingZeros(balIn))
    => balOut = balIn

\* 2^128 - 1 went through both conversions
C8_Witness == balIn = BalMax /\ balHex = Repeat("f", 32) /\ balOut = BalMax

\* C9: for every decimal numeral of an integer in 0 .. 2^128 - 1 the result
\* of encodeBalance has exactly 32 characters, all lower case hex digits,
\* and is the value of the numeral (so it is zero padded on the left).
C9_Width ==
  (balHex # Undefined /\ DenotesBalance(balIn))
    => /\ Len(balHex) = 32
       /\ \A j \in DOMAIN balHex : balHex[j] \in Range(HexLower)
       /\ bigInt16(balHex) = bigInt10(balIn)

\* 7 was encoded with 31 zeros before it
C9_Witness == balIn = <<"7">> /\ balHex = Repeat("0", 31) \o <<"7">>

IsHex(str) == \A j \in DOMAIN str : IsHexChar(str[j])

\* the bytes a hex string denotes
HexBytes(str) == [j \in 1..(Len(str) \div 2) |-> HexPairVal(str, j - 1)]

\* the 16 big-endian bytes of the integer a decimal numeral denotes
Balance16(balance) ==
  [j \in 1..16 |->
     LET m    == 8 - ((j - 1) \div 2)
         limb == IF m <= Len(bigInt10(balance)) THEN bigInt10(balance)[m] ELSE 0
     IN  IF j % 2 = 1 THEN limb \div 256 ELSE limb % 256]

\* the documented layout of the payload of a Sign request for a path and
\* block data
SignLayout(data, path, b) ==
  LET o == 1 + 4 * Len(path)
  IN  /\ Len(data) = o + 112
      /\ data[1] = Len(path)
      /\ \A n \in DOMAIN path : SubSeq(data, 4 * n - 2, 4 * n + 1) = UInt32BE(path[n])
      /\ IF Truthy(b.previousBlock)
           THEN IsHex(b.previousBlock)
                  => SubSeq(data, o + 1, o + 32) = HexBytes(b.previousBlock)
           ELSE SubSeq(data, o + 1, o + 32) = BufferAlloc(32)
      /\ IF Truthy(b.sourceBlock)
           THEN IsHex(b.sourceBlock)
                  => SubSeq(data, o + 33, o + 64) = HexBytes(b.sourceBlock)
           ELSE IF Truthy(b.recipient)
                  THEN SubSeq(data, o + 33, o + 64)
                         = decodeAddress(b.recipient, addressPrefixes(coin)).key
                  ELSE SubSeq(data, o + 33, o + 64) = BufferAlloc(32)
      /\ SubSeq(data, o + 65, o + 96)
           = decodeAddress(b.representative, addressPrefixes(coin)).key
      /\ DenotesBalance(b.balance) => SubSeq(data, o + 97, o + 112) = Balance16(b.balance)

\* C10: the payload of every Sign request handed to the transport has
\* 1 + 4N + 112 bytes: the number N of path segments, the segments, the
\* previousBlock bytes or zeros at 1 + 4N, the second slot at 1 + 4N + 32,
\* the representative key at 1 + 4N + 64 and the balance at 1 + 4N + 96.
C10_SignLayout ==
  \A k \in DOMAIN wire :
    wire[k].frame.ins = 4
      => SignLayout(wire[k].frame.data, calls[wire[k].call].input.path,
                    calls[wire[k].call].input.blockData)

\* the block data of a sent Sign or Cache frame has hex hashes and a balance
\* of digits only
PlainBlock(b) ==
  /\ Truthy(b.previousBlock) => IsHex(b.previousBlock)
  /\ Truthy(b.sourceBlock) => IsHex(b.sourceBlock)
  /\ \A j \in DOMAIN b.balance : IsDigit(b.balance[j])

\* the integer the numeral denotes fits 16 bytes
Fits16(balance) == Len(bigInt10(balance)) <= 8

\* C11: in every Sign and Cache request, the 16 bytes of the balance field
\* are the big-endian encoding of the integer the balance numeral denotes,
\* also when that integer is 2^128 or larger
C11_BalanceField ==
  \A k \in DOMAIN wire :
    LET b == calls[wire[k].call].input.blockData
        o == 1 + 4 * Len(calls[wire[k].call].input.path)
    IN  (wire[k].frame.ins \in {3, 4} /\ PlainBlock(b))
          => /\ Fits16(b.balance)
             /\ SubSeq(wire[k].frame.data, o + 97, o + 112) = Balance16(b.balance)

\* the same for the balances below 2^128
C11_BalanceFieldInRange ==
  \A k \in DOMAIN wire :
    LET b == calls[wire[k].call].input.blockData
        o == 1 + 4 * Len(calls[wire[k].call].input.path)
    IN  (wire[k].frame.ins \in {3, 4} /\ PlainBlock(b) /\ Fits16(b.balance))
          => SubSeq(wire[k].frame.data, o + 97, o + 112) = Balance16(b.balance)

\* the two 32 byte slots after the path, as documented; a slot whose own
\* hash is not hex is left open
Slots(data, o, b) ==
  /\ IF Truthy(b.previousBlock)
       THEN IsHex(b.previousBlock)
              => SubSeq(data, o + 1, o + 32) = HexBytes(b.previousBlock)
       ELSE SubSeq(data, o + 1, o + 32) = BufferAlloc(32)
  /\ IF Truthy(b.sourceBlock)
       THEN IsHex(b.sourceBlock)
              => SubSeq(data, o + 33, o + 64) = HexBytes(b.sourceBlock)
       ELSE IF Truthy(b.recipient)
              THEN SubSeq(data, o + 33, o + 64)
                     = decodeAddress(b.recipient, addressPrefixes(coin)).key
              ELSE SubSeq(data, o + 33, o + 64) = BufferAlloc(32)

\* C12: in every Sign and Cache request the first slot is zero without
\* previousBlock and its hash bytes otherwise, and the second slot holds the
\* sourceBlock hash bytes, else the recipient public key, else zero
C12_Slots ==
  \A k \in DOMAIN wire :
    wire[k].frame.ins \in {3, 4}
      => Slots(wire[k].frame.data, 1 + 4 * Len(calls[wire[k].call].input.path),
               calls[wire[k].call].input.blockData)

\* the same for block data whose hashes are hex
C12_SlotsOfHexHashes ==
  \A k \in DOMAIN wire :
    (wire[k].frame.ins \in {3, 4} /\ PlainBlock(calls[wire[k].call].input.blockData))
      => Slots(wire[k].frame.data, 1 + 4 * Len(calls[wire[k].call].input.path),
               calls[wire[k].call].input.blockData)

\* the payload of a Cache request is the payload of the Sign request for the
\* same path and block data, then the bytes of the signature (left open for
\* a signature that is not hex)
CacheIsSignThenSignature(data, path, b, signature) ==
  LET o == 1 + 4 * Len(path)
  IN  /\ Len(data) = o + 112 + 64
      /\ SubSeq(data, 1, o + 112) = signBlockRequest(coin, path, b, FALSE).frame.data
      /\ IsHex(signature) => SubSeq(data, o + 113, o + 176) = HexBytes(signature)

\* C13: the payload of every Cache request is the Sign payload of the same
\* path and block data followed by the 64 bytes of the signature
C13_CacheExtendsSign ==
  \A k \in DOMAIN wire :
    wire[k].frame.ins = 3
      => CacheIsSignThenSignature(wire[k].frame.data,
                                  calls[wire[k].call].input.path,
                                  calls[wire[k].call].input.blockData,
                                  calls[wire[k].call].input.signature)

\* the same for block data whose hashes are hex
C13_CacheExtendsSignOfHexHashes ==
  \A k \in DOMAIN wire :
    (wire[k].frame.ins = 3 /\ PlainBlock(calls[wire[k].call].input.blockData))
      => CacheIsSignThenSignature(wire[k].frame.data,
                                  calls[wire[k].call].input.path,
                                  calls[wire[k].call].input.blockData,
                                  calls[wire[k].call].input.signature)

\* the first characters of the string are those of the prefix
BeginsWith(str, prefix) ==
  /\ Len(str) >= Len(prefix)
  /\ \A j \in DOMAIN prefix : str[j] = prefix[j]

\* the prefix of the coin that decodeAddress removes from the address: the
\* first of the allowed prefixes the address begins with
SuppliedPrefix(address, c) ==
  IF BeginsWith(address, c.addressPrimaryPrefix) THEN "primary"
  ELSE IF BeginsWith(address, c.addressSecondaryPrefix) THEN "secondary"
  ELSE "none"

\* C14: in the header of a Sign request, bit0 of param2 is set exactly when
\* recipient was supplied with the secondary prefix of the coin, bit1 exactly
\* when representative was; param2 is 0 for a coin whose two prefixes are
\* equal, and no other bit is set
C14_SignParam2 ==
  (ret.err = "none" /\ ret.frame.ins = 4)
    => /\ ret.frame.p2 \in 0..3
       /\ (ret.frame.p2 % 2 = 1)
            <=> /\ Truthy(arg.blockData.recipient)
                /\ SuppliedPrefix(arg.blockData.recipient, arg.coin) = "secondary"
       /\ (ret.frame.p2 \div 2 = 1)
            <=> SuppliedPrefix(arg.blockData.representative, arg.coin) = "secondary"
       /\ arg.coin.addressPrimaryPrefix = arg.coin.addressSecondaryPrefix
            => ret.frame.p2 = 0

\* a Send block signed under the coin with two prefixes, the recipient under
\* the secondary and the representative under the primary prefix
C14_Witness ==
  /\ ret.err = "none"
  /\ ret.frame.ins = 4
  /\ arg.coin = CoinNano
  /\ SuppliedPrefix(arg.blockData.recipient, arg.coin) = "secondary"
  /\ SuppliedPrefix(arg.blockData.representative, arg.coin) = "primary"
  /\ ret.frame.p2 = 1

\* the address without the first of the allowed prefixes it begins with
AfterPrefix(address, allowedPrefixes) ==
  IF \E n \in DOMAIN allowedPrefixes : BeginsWith(address, allowedPrefixes[n])
    THEN LET n == CHOOSE n \in DOMAIN allowedPrefixes :
                    /\ BeginsWith(address, allowedPrefixes[n])
                    /\ \A m \in 1..(n - 1) : ~BeginsWith(address, allowedPrefixes[m])
         IN  SubSeq(address, Len(allowedPrefixes[n]) + 1, Len(address))
    ELSE address

\* one character of 1 and 3, then 59 symbols of the base 32 alphabet
AccountForm(a) ==
  /\ Len(a) = 60
  /\ a[1] \in {"1", "3"}
  /\ \A j \in 2..60 : a[j] \in Base32Chars

\* the last 5 decoded bytes are the reversed checksum of the first 32
ChecksumMatches(a) ==
  SubSeq(Base32Decode(a), 33, 37) = Reverse(blake2b(SubSeq(Base32Decode(a), 1, 32), 5))

\* the address is an account under one of the prefixes, or without prefix
ValidAddress(address, allowedPrefixes) ==
  /\ AccountForm(AfterPrefix(address, allowedPrefixes))
  /\ ChecksumMatches(AfterPrefix(address, allowedPrefixes))

\* C15: decodeAddress returns null, it neither throws nor returns a key, for
\* every address that after its prefix is not of the form of an account or
\* whose checksum does not match
C15_InvalidAddressNull ==
  (ret # NotDecoded /\ ~ValidAddress(arg.address, arg.allowedPrefixes))
    => ret.kind = "null"

\* decodeAddress returns no key for such an address
C15_InvalidAddressNoKey ==
  (ret # NotDecoded /\ ~ValidAddress(arg.address, arg.allowedPrefixes))
    => ret.kind # "key"

\* decodeAddress returns the key of every account under an allowed prefix
C15_ValidAddressKey ==
  (ret # NotDecoded /\ ValidAddress(arg.address, arg.allowedPrefixes))
    => ret.kind = "key"

\* C16: processBlockData fails with one of its validation errors whenever
\* the balance is anything but a non-empty sequence of decimal digits
C16_BalanceRejected ==
  \A i \in DOMAIN calls :
    (IsBlockCall(calls[i]) /\ calls[i].err # "WrongApp"
       /\ NotDigits(calls[i].input.blockData.balance))
      => calls[i].err \in BlockDataErrors

\* the same for a balance without any decimal digit
C16_BalanceWithoutDigitRejected ==
  \A i \in DOMAIN calls :
    (IsBlockCall(calls[i]) /\ calls[i].err # "WrongApp"
       /\ \A j \in DOMAIN calls[i].input.blockData.balance :
            calls[i].input.blockData.balance[j] \notin DigitChars)
      => calls[i].err \in BlockDataErrors

\* a hash that is given and is not 64 hex characters
NotHash(hash) == Truthy(hash) /\ ~(Len(hash) = 64 /\ IsHex(hash))

\* C17: processBlockData fails with one of its validation errors whenever
\* previousBlock or sourceBlock is given and is not 64 hex characters, a
\* string of 64 characters that are not all hex included
C17_HashRejected ==
  \A i \in DOMAIN calls :
    (IsBlockCall(calls[i]) /\ calls[i].err # "WrongApp"
       /\ (\/ NotHash(calls[i].input.blockData.previousBlock)
           \/ NotHash(calls[i].input.blockData.sourceBlock)))
      => calls[i].err \in BlockDataErrors

\* the same for a hash that is not 64 characters long
C17_HashOfWrongLengthRejected ==
  \A i \in DOMAIN calls :
    (IsBlockCall(calls[i]) /\ calls[i].err # "WrongApp"
       /\ (\/ WrongLength(calls[i].input.blockData.previousBlock)
           \/ WrongLength(calls[i].input.blockData.sourceBlock)))
      => calls[i].err \in BlockDataErrors

\* C18: cacheBlock hands a request to the transport only if the signature is
\* 128 hex characters, fails with a validation error for every other
\* signature, and returns nothing when it succeeds
C18_SignatureChecked ==
  \A i \in DOMAIN calls :
    (calls[i].op = "cacheBlock" /\ calls[i].err # "WrongApp")
      => /\ ~(Len(calls[i].input.signature) = 128 /\ IsHex(calls[i].input.signature))
              => /\ calls[i].nsend = 0
                 /\ calls[i].err \in ValidationErrors \cup {"path"}
         /\ (calls[i].pc = "done" /\ calls[i].err = "none")
              => calls[i].result = NoResult

\* the same for a signature that is not 128 characters long
C18_SignatureOfWrongLengthChecked ==
  \A i \in DOMAIN calls :
    (calls[i].op = "cacheBlock" /\ calls[i].err # "WrongApp")
      => /\ Len(calls[i].input.signature) # 128
              => /\ calls[i].nsend = 0
                 /\ calls[i].err \in ValidationErrors \cup {"path"}
         /\ (calls[i].pc = "done" /\ calls[i].err = "none")
              => calls[i].result = NoResult

\* the response is shorter than the fields its layout declares
ShortResponse(op, resp) ==
  CASE op = "getAppConfiguration" -> Len(resp) < 3
    [] op = "getAddress" ->
         Len(resp) < 32 + 1 \/ Len(resp) < 32 + 1 + resp[33]
    [] op = "signBlock" -> Len(resp) < 32 + 64
    [] OTHER -> FALSE

\* the response is shorter than the part of its layout that is read byte by
\* byte: the version, and the key with the length of the address
ShortFixedPart(op, resp) ==
  CASE op = "getAppConfiguration" -> Len(resp) < 3
    [] op = "getAddress" -> Len(resp) < 32 + 1
    [] OTHER -> FALSE

\* C19: a getAppConfiguration, getAddress or signBlock call whose response
\* is shorter than the fields its layout declares fails with an error
C19_ShortResponseFails ==
  \A i \in DOMAIN calls :
    (calls[i].response # NoResponse /\ ShortResponse(calls[i].op, calls[i].response))
      => calls[i].err # "none"

\* the same for a response that ends before the version or the address
\* length is complete
C19_ShortFixedPartFails ==
  \A i \in DOMAIN calls :
    (calls[i].response # NoResponse /\ ShortFixedPart(calls[i].op, calls[i].response))
      => calls[i].err = "decode"

\* the decimal numeral of a byte
DecimalOfByte(n) ==
  IF n < 10 THEN <<Digits[n + 1]>>
  ELSE IF n < 100 THEN <<Digits[(n \div 10) + 1], Digits[(n % 10) + 1]>>
  ELSE <<Digits[(n \div 100) + 1], Digits[((n \div 10) % 10) + 1], Digits[(n % 10) + 1]>>

\* what the documentation says getAppConfiguration returns for a response
AppConfigurationOf(resp, result) ==
  /\ result.version = DecimalOfByte(resp[1]) \o <<".">> \o DecimalOfByte(resp[2])
                        \o <<".">> \o DecimalOfByte(resp[3])
  /\ (Len(resp) > 3 /\ Len(resp) >= 4 + resp[4])
       => /\ Len(result.coinName) = resp[4]
          /\ \A j \in 1..resp[4] : result.coinName[j] = Chr(resp[4 + j])
  /\ (Len(resp) = 3 /\ SubSeq(resp, 1, 3) = <<1, 0, 0>>)
       => result.coinName = <<"N", "a", "n", "o">>

\* C20: getAppConfiguration returns the version major.minor.patch of the
\* first three response bytes, the bytes of a length-prefixed coin name as
\* coinName, and the coin name Nano when the name is absent and the version
\* is 1.0.0
C20_AppConfiguration ==
  \A i \in DOMAIN calls :
    (calls[i].op = "getAppConfiguration" /\ calls[i].response # NoResponse
       /\ calls[i].err = "none")
      => AppConfigurationOf(calls[i].response, calls[i].result)

\* getAppConfiguration returned the implicit name for a response of the three
\* bytes 1, 0, 0
C20_Witness ==
  \E i \in DOMAIN calls :
    /\ calls[i].op = "getAppConfiguration"
    /\ calls[i].pc = "done"
    /\ calls[i].err = "none"
    /\ calls[i].response = <<1, 0, 0>>
    /\ calls[i].result.version = <<"1", ".", "0", ".", "0">>
    /\ calls[i].result.coinName = <<"N", "a", "n", "o">>

\* the transport rejected the exchange of call i and the call has not been
\* dropped
TransportFailed(c) == c.err = "transport"

\* C21: a call whose transport.send failed fails with that transport error
\* unchanged, without a retry, and the session is as before the call: the
\* steps from the rejection to the failure of the call keep the status code
\* and leave _appCoin at its value, also for getAppConfiguration
C21_TransportFailure ==
  [][\A i \in DOMAIN calls :
       /\ (~TransportFailed(calls[i]) /\ TransportFailed(calls'[i]))
            => /\ calls[i].pc = "awaitTransport"
               /\ calls'[i].result.statusCode \in Range(STATUS_CODES)
               /\ calls'[i].nsend = 1
               /\ \A k \in DOMAIN wire' : wire'[k].call # i
               /\ appCoin' = appCoin
       /\ (TransportFailed(calls[i]) /\ calls[i].pc = "awaitInner"
             /\ calls'[i].pc = "done")
            => /\ calls'[i].err = "transport"
               /\ calls'[i].result = calls[i].result
               /\ calls'[i].nsend = 1
               /\ wire' = wire
               /\ appCoin' = appCoin]_vars

\* a getAppConfiguration failed with the status of the transport while the
\* name recorded before it is still recorded
C21_Witness ==
  \E i \in DOMAIN calls :
    /\ calls[i].op = "getAppConfiguration"
    /\ calls[i].pc = "done"
    /\ calls[i].err = "transport"
    /\ calls[i].result.statusCode = STATUS_CODES.CONDITIONS_OF_USE_NOT_SATISFIED
    /\ appCoin = <<"N", "a", "n", "o">>

\* C22: the scramble key of the transport is set exactly once per session,
\* by the constructor and so before any transport.send, to the constant
\* "mRB"; no operation of the session sets it again
C22_ScrambleKeyOnce ==
  /\ Len(scrambleKeys) = 1
  /\ scrambleKeys[1] = <<"m", "R", "B">>

\* every kind of operation has handed a request to the transport or has
\* settled, and the key has been set once
C22_Witness ==
  /\ scrambleKeys = << <<"m", "R", "B">> >>
  /\ \E i \in DOMAIN calls : calls[i].op = "getAppConfiguration" /\ calls[i].pc = "done"
  /\ \E i \in DOMAIN calls : calls[i].op = "signBlock" /\ calls[i].nsend = 1

\* C23: signBlock of the Nano api takes the block data of its documented
\* examples, for opening an account and for sending funds, and hands a Sign
\* request to the transport
C23_ExamplesAccepted ==
  (ret # NotApplied /\ arg.blockData \in {NanoOpenExample, NanoSendExample})
    => /\ ret.err = "none"
       /\ ret.frame.ins = 4

\* every call with the balance of the examples, which has 33 digits, fails
\* with the balance error (the hashes and the representative of every input
\* pass the checks made before it)
C23_BalanceOf33DigitsRejected ==
  (ret # NotApplied /\ arg.blockData.balance = Bal1e32) => ret.err = "balance"

\* the examples with a balance of 32 digits are taken
C23_ExamplesOf32DigitsAccepted ==
  (ret # NotApplied
     /\ arg.blockData \in {[NanoOpenExample EXCEPT !.balance = Bal1e31],
                            [NanoSendExample EXCEPT !.balance = Bal1e31]})
    => /\ ret.err = "none"
       /\ ret.frame.ins = 4

\* C24: the recorded app name does not expire and getAppConfiguration is not
\* gated by it: a getAddress, signBlock or cacheBlock fails with the
\* wrong-app error exactly while the last getAppConfiguration that returned
\* gave a name other than the configured one, and is allowed again once one
\* returned the configured name; getAppConfiguration always hands its request
\* to the transport
C24_IdentityLifecycle ==
  [][\A i \in DOMAIN calls :
       /\ (calls[i].pc = "idle"
             /\ calls'[i].op \in {"getAddress", "signBlock", "cacheBlock"})
            => (calls'[i].err = "WrongApp"
                  <=> (lastConf.completed /\ lastConf.coinName # coin.coinName))
       /\ (calls[i].pc = "idle" /\ calls'[i].op = "getAppConfiguration")
            => /\ calls'[i].err = "none"
               /\ calls'[i].nsend = 1
               /\ Len(wire') = Len(wire) + 1
               /\ wire'[Len(wire')].call = i
               /\ wire'[Len(wire')].frame.ins = 1]_vars

\* a signBlock failed while another name was recorded, and after a
\* getAppConfiguration returned the configured name a getAddress has handed
\* over its request
C24_Witness ==
  /\ lastConf.completed
  /\ lastConf.coinName = coin.coinName
  /\ \E i \in DOMAIN calls : calls[i].op = "signBlock" /\ calls[i].err = "WrongApp"
  /\ \E i \in DOMAIN calls :
       /\ calls[i].op = "getAddress"
       /\ calls[i].err = "none"
       /\ calls[i].nsend = 1

\* the response carries the three version bytes only, and they are not 1, 0, 0
NamelessResponse(resp) == Len(resp) = 3 /\ resp # <<1, 0, 0>>

\* C25: for a response without coin name and a version other than 1.0.0,
\* getAppConfiguration returns the empty string as coin name and records
\* it; while it is recorded, every getAddress, signBlock and cacheBlock of a
\* session whose coin has a name fails with the wrong-app error
C25_EmptyNameMismatch ==
  [][\A i \in DOMAIN calls :
       /\ (ConfReturns(i) /\ NamelessResponse(calls[i].response))
            => /\ calls'[i].result.coinName = <<>>
               /\ calls'[i].err = "none"
               /\ appCoin' = <<>>
       /\ (calls[i].pc = "idle"
             /\ calls'[i].op \in {"getAddress", "signBlock", "cacheBlock"}
             /\ appCoin = <<>> /\ coin.coinName # <<>>)
            => /\ calls'[i].err = "WrongApp"
               /\ calls'[i].nsend = 0
               /\ wire' = wire]_vars

\* a cacheBlock failed with the wrong-app error while the empty name of the
\* response 1.2.3 is recorded
C25_Witness ==
  /\ appCoin = <<>>
  /\ lastConf.completed
  /\ lastConf.coinName = <<>>
  /\ \E i \in DOMAIN calls :
       /\ calls[i].op = "getAppConfiguration"
       /\ calls[i].pc = "done"
       /\ calls[i].response = <<1, 2, 3>>
  /\ \E i \in DOMAIN calls : calls[i].op = "cacheBlock" /\ calls[i].err = "WrongApp"

\* call i hands a request to the transport in this step
Sends(i) ==
  Len(SelectSeq(wire', LAMBDA e : e.call = i))
    > Len(SelectSeq(wire, LAMBDA e : e.call = i))

\* C26: under every interleaving, the coin check and the hand-off of the
\* request of a getAddress, signBlock or cacheBlock are one step: the step
\* in which such a call hands its request to the transport is the step in
\* which the call was made and checked, _appCoin is absent or the configured
\* name in it, and the step does not change _appCoin
C26_CheckAndSendAtomic ==
  [][\A i \in DOMAIN calls :
       (Sends(i) /\ calls'[i].op \in {"getAddress", "signBlock", "cacheBlock"})
         => /\ calls[i].pc = "idle"
            /\ calls'[i].pc = "awaitTransport"
            /\ appCoin \in {Undefined, coin.coinName}
            /\ appCoin' = appCoin]_vars

\* a signBlock has handed over its request while a getAppConfiguration of
\* the same session, answered with the name Nano, has not yet recorded it
C26_Witness ==
  /\ appCoin \in {Undefined, coin.coinName}
  /\ \E i \in DOMAIN calls :
       /\ calls[i].op = "signBlock"
       /\ calls[i].pc = "awaitTransport"
       /\ calls[i].nsend = 1
  /\ \E j \in DOMAIN calls :
       /\ calls[j].op = "getAppConfiguration"
       /\ calls[j].pc = "awaitInner"
       /\ calls[j].result.coinName = <<"N", "a", "n", "o">>

====
